---- MODULE Spec2Model ----
(***************************************************************************)
(* A model of the simplelru engine of craumix/golang-lru: a fixed-capacity *)
(* LRU cache with optional per-entry expiry.  The repository holds two     *)
(* iterations of the engine: src/unnamed/part_001 (the one that implements *)
(* the LRUCache interface of src/simplelru/lru_interface.go) and           *)
(* src/unnamed/part_002 (an earlier one with the expiryBasedEvict flag).   *)
(* Both are modelled; the operators of part_002 carry the suffix V2.       *)
(*                                                                         *)
(* A cache is a record                                                     *)
(*   size, evictList, items, itemTTL, itemExpiries, expiryBasedEvict, log  *)
(* where evictList is a sequence of entries [key, value] whose first       *)
(* element is the front (most recently used) and whose last element is the *)
(* back (least recently used), items is the key set of the items map,      *)
(* itemExpiries is a function from the keys that have a recorded expiry to *)
(* their instant, and log is what the onEvict callback has been called     *)
(* with during the operation in progress.                                  *)
(*                                                                         *)
(* Instants are integers.  0 is the zero time.Time (IsZero), the clock     *)
(* starts at 1, and time.Now() is the variable now.  The clock advances    *)
(* between calls (Tick); within a call every read of it gives the same     *)
(* instant, except in Get of part_001, whose two tests of the same key     *)
(* take different branches only when the clock moves between them.         *)
(*                                                                         *)
(* Variables: cache is the cache the operations act on, dest a second      *)
(* cache (the destination of MoveItem), engine tells which of the two      *)
(* source files cache is an instance of, last records the last call (its   *)
(* name, arguments and results, and the state of its key before it), and   *)
(* used is the history of use: the resident keys in the order of their     *)
(* most recent Add or successful Get, oldest first.                        *)
(***************************************************************************)
EXTENDS Integers, Sequences, FiniteSets, TLC

VARIABLES cache, dest, now, engine, used, last

vars == <<cache, dest, now, engine, used, last>>

\* ---------------------------------------------------------------- bounds
MaxKey == 2
MaxSize == 2
MaxTime == 3
MaxTTL == 1

KeyDom == 0..MaxKey
Vals == {"a", "b"}
Sizes == 1..MaxSize
TTLs == 0..MaxTTL

\* The zero values of K, V and time.Time that a Go function returns for a
\* named result it never assigned.
ZeroKey == 0
ZeroVal == ""
ZeroTime == 0

\* The expiry arguments of AddWithExp and ChangeExpiry: the zero time and an
\* instant that is in the future when the clock starts and in the past
\* when it stops.
Expiries == {ZeroTime, MaxTime - 1}

\* ------------------------------------------------------------- lruList
\* The list type is defined outside the engine's files; these follow
\* their use by the engine: pushFront, moveToFront, remove, back, length,
\* init, prevEntry.
newList == <<>>

length(l) == Len(l)

pushFront(l, k, v) == <<[key |-> k, value |-> v]>> \o l

remove(l, k) == SelectSeq(l, LAMBDA e : e.key # k)

moveToFront(l, k) ==
    LET e == CHOOSE x \in {l[i] : i \in 1..Len(l)} : x.key = k
    IN  <<e>> \o remove(l, k)

\* back() is the last element; the walk ent = ent.prevEntry() from the back
\* visits the indices Len(l), Len(l)-1, ..., 1.
HasBack(l) == Len(l) > 0

back(l) == l[Len(l)]

\* The value held by the entry of key k (ent.value for ent = items[k]).
ValueOf(l, k) == (CHOOSE x \in {l[i] : i \in 1..Len(l)} : x.key = k).value

SetValue(l, k, v) ==
    [i \in 1..Len(l) |-> IF l[i].key = k THEN [key |-> k, value |-> v] ELSE l[i]]

\* map delete
MapDelete(m, k) == [x \in (DOMAIN m) \ {k} |-> m[x]]

\* map assignment m[k] = v
MapPut(m, k, v) == [x \in (DOMAIN m) \cup {k} |-> IF x = k THEN v ELSE m[x]]

EmptyMap == [x \in {} |-> 0]

\* ------------------------------------------------- part_001: the engine
NewLRUWithEvictTTL(size, itemTTL) ==
    [size             |-> size,
     evictList        |-> newList,
     items            |-> {},
     itemTTL          |-> itemTTL,
     itemExpiries     |-> EmptyMap,
     expiryBasedEvict |-> FALSE,
     log              |-> <<>>]

KeyHasExpired(c, key, t) ==
    key \in DOMAIN c.itemExpiries /\ c.itemExpiries[key] < t

ExpiryForKey(c, key) ==
    IF key \in DOMAIN c.itemExpiries THEN c.itemExpiries[key] ELSE ZeroTime

\* A removeElement that leaves the recorded expiry of the key behind.
removeElementKeepingExpiry(c, k) ==
    LET v == ValueOf(c.evictList, k)
    IN  [c EXCEPT !.evictList = remove(@, k),
                  !.items = @ \ {k},
                  !.log = Append(@, [key |-> k, value |-> v])]

removeElement(c, k) ==
    LET v == ValueOf(c.evictList, k)
    IN  [c EXCEPT !.evictList = remove(@, k),
                  !.items = @ \ {k},
                  !.itemExpiries = MapDelete(@, k),
                  !.log = Append(@, [key |-> k, value |-> v])]

\* The first expired entry met walking from the back, if any.
findExpired(c, t) ==
    LET l == c.evictList
        hits == {i \in 1..Len(l) : KeyHasExpired(c, l[i].key, t)}
    IN  IF hits = {}
        THEN [ok |-> FALSE, key |-> ZeroKey]
        ELSE [ok |-> TRUE, key |-> l[CHOOSE i \in hits : \A j \in hits : j <= i].key]

\* The loop of getOldest: from the back, an unexpired entry is returned,
\* an expired one is removed and the walk goes on with its predecessor
\* (ent.prev, taken to be nil at the front of the list, as prevEntry() is).
RECURSIVE getOldestLoop(_, _)
getOldestLoop(c, t) ==
    IF ~HasBack(c.evictList)
    THEN [c |-> c, ok |-> FALSE, key |-> ZeroKey]
    ELSE LET ent == back(c.evictList)
         IN  IF ~KeyHasExpired(c, ent.key, t)
             THEN [c |-> c, ok |-> TRUE, key |-> ent.key]
             ELSE getOldestLoop(removeElement(c, ent.key), t)

getOldest(c, includeExpired, t) ==
    LET fe == findExpired(c, t)
    IN  IF c.itemTTL > 0 /\ includeExpired /\ fe.ok
        THEN [c |-> c, ok |-> TRUE, key |-> fe.key]
        ELSE getOldestLoop(c, t)

\* A removeOldest that evicts nothing.
removeOldestNothing(c, t) == c

removeOldest(c, t) ==
    LET r == getOldest(c, TRUE, t)
    IN  IF r.ok THEN removeElement(r.c, r.key) ELSE r.c

\* An AddWithExp that overwrites a resident key without calling onEvict.
AddWithExpSilent(c, key, value, expiry, t) ==
    IF key \in c.items
    THEN [c |-> [c EXCEPT !.evictList = SetValue(moveToFront(@, key), key, value)],
          evicted |-> FALSE]
    ELSE LET c1 == [c EXCEPT !.evictList = pushFront(@, key, value),
                             !.items = @ \cup {key},
                             !.itemExpiries =
                                 IF expiry # ZeroTime THEN MapPut(@, key, expiry)
                                 ELSE IF c.itemTTL > 0 THEN MapPut(@, key, t + c.itemTTL)
                                 ELSE @]
             evict == length(c1.evictList) > c1.size
         IN  [c |-> IF evict THEN removeOldest(c1, t) ELSE c1, evicted |-> evict]

\* An AddWithExp that records the expiry again when the key is resident.
AddWithExpRenewing(c, key, value, expiry, t) ==
    LET exps == IF expiry # ZeroTime THEN MapPut(c.itemExpiries, key, expiry)
                ELSE IF c.itemTTL > 0 THEN MapPut(c.itemExpiries, key, t + c.itemTTL)
                ELSE c.itemExpiries
    IN  IF key \in c.items
        THEN [c |-> [c EXCEPT !.evictList = SetValue(moveToFront(@, key), key, value),
                              !.itemExpiries = exps,
                              !.log = Append(@, [key |-> key,
                                                 value |-> ValueOf(c.evictList, key)])],
              evicted |-> FALSE]
        ELSE LET c1 == [c EXCEPT !.evictList = pushFront(@, key, value),
                                 !.items = @ \cup {key},
                                 !.itemExpiries = exps]
                 evict == length(c1.evictList) > c1.size
             IN  [c |-> IF evict THEN removeOldest(c1, t) ELSE c1, evicted |-> evict]

AddWithExp(c, key, value, expiry, t) ==
    IF key \in c.items
    THEN [c |-> [c EXCEPT !.evictList = SetValue(moveToFront(@, key), key, value),
                          !.log = Append(@, [key |-> key,
                                             value |-> ValueOf(c.evictList, key)])],
          evicted |-> FALSE]
    ELSE LET c1 == [c EXCEPT !.evictList = pushFront(@, key, value),
                             !.items = @ \cup {key},
                             !.itemExpiries =
                                 IF expiry # ZeroTime THEN MapPut(@, key, expiry)
                                 ELSE IF c.itemTTL > 0 THEN MapPut(@, key, t + c.itemTTL)
                                 ELSE @]
             evict == length(c1.evictList) > c1.size
         IN  [c |-> IF evict THEN removeOldest(c1, t) ELSE c1, evicted |-> evict]

Add(c, key, value, t) == AddWithExp(c, key, value, ZeroTime, t)

\* A Get that returns the value without moving the entry to the front.
GetWithoutMove(c, key, t, t2) ==
    IF key \in c.items /\ ~KeyHasExpired(c, key, t)
    THEN IF ~KeyHasExpired(c, key, t2)
         THEN [c |-> c, value |-> ValueOf(c.evictList, key), ok |-> TRUE]
         ELSE [c |-> removeElement(c, key), value |-> ZeroVal, ok |-> FALSE]
    ELSE [c |-> c, value |-> ZeroVal, ok |-> FALSE]

\* Get reads the clock twice: t at the outer test, t2 >= t at the inner one.
Get(c, key, t, t2) ==
    IF key \in c.items /\ ~KeyHasExpired(c, key, t)
    THEN IF ~KeyHasExpired(c, key, t2)
         THEN [c |-> [c EXCEPT !.evictList = moveToFront(@, key)],
               value |-> ValueOf(c.evictList, key), ok |-> TRUE]
         ELSE [c |-> removeElement(c, key), value |-> ZeroVal, ok |-> FALSE]
    ELSE [c |-> c, value |-> ZeroVal, ok |-> FALSE]

Contains(c, key, t) ==
    IF key \in c.items
    THEN IF ~KeyHasExpired(c, key, t)
         THEN [c |-> c, ok |-> TRUE]
         ELSE [c |-> removeElement(c, key), ok |-> FALSE]
    ELSE [c |-> c, ok |-> FALSE]

\* A Peek that moves the entry to the front, as Get does.
PeekMoving(c, key, t) ==
    IF key \in c.items
    THEN IF ~KeyHasExpired(c, key, t)
         THEN [c |-> [c EXCEPT !.evictList = moveToFront(@, key)],
               value |-> ValueOf(c.evictList, key), ok |-> TRUE]
         ELSE [c |-> removeElement(c, key), value |-> ZeroVal, ok |-> FALSE]
    ELSE [c |-> c, value |-> ZeroVal, ok |-> FALSE]

\* A Peek that does not test the expiry.
PeekIgnoringExpiry(c, key, t) ==
    IF key \in c.items
    THEN [c |-> c, value |-> ValueOf(c.evictList, key), ok |-> TRUE]
    ELSE [c |-> c, value |-> ZeroVal, ok |-> FALSE]

Peek(c, key, t) ==
    IF key \in c.items
    THEN IF ~KeyHasExpired(c, key, t)
         THEN [c |-> c, value |-> ValueOf(c.evictList, key), ok |-> TRUE]
         ELSE [c |-> removeElement(c, key), value |-> ZeroVal, ok |-> FALSE]
    ELSE [c |-> c, value |-> ZeroVal, ok |-> FALSE]

\* A Remove that leaves an expired key resident.
RemoveKeepingExpired(c, key, t) ==
    IF key \in c.items /\ ~KeyHasExpired(c, key, t)
    THEN [c |-> removeElement(c, key), present |-> TRUE]
    ELSE [c |-> c, present |-> FALSE]

\* The deferred removeElement runs after the result is computed.
Remove(c, key, t) ==
    IF key \in c.items
    THEN [c |-> removeElement(c, key), present |-> ~KeyHasExpired(c, key, t)]
    ELSE [c |-> c, present |-> FALSE]

RemoveOldest(c, t) ==
    LET r == getOldest(c, FALSE, t)
    IN  IF r.ok
        THEN [c |-> removeElement(r.c, r.key), key |-> r.key,
              value |-> ValueOf(r.c.evictList, r.key), ok |-> TRUE]
        ELSE [c |-> r.c, key |-> ZeroKey, value |-> ZeroVal, ok |-> FALSE]

GetOldest(c, t) ==
    LET r == getOldest(c, FALSE, t)
    IN  IF r.ok
        THEN [c |-> r.c, key |-> r.key,
              value |-> ValueOf(r.c.evictList, r.key), ok |-> TRUE]
        ELSE [c |-> r.c, key |-> ZeroKey, value |-> ZeroVal, ok |-> FALSE]

\* The entries of l from the back to the front.
Reverse(l) == [i \in 1..Len(l) |-> l[Len(l) + 1 - i]]

LiveEntries(c, t) ==
    SelectSeq(Reverse(c.evictList), LAMBDA e : ~KeyHasExpired(c, e.key, t))

\* A Keys that lists from the front of the list to the back.
KeysFrontFirst(c, t) ==
    LET s == SelectSeq(c.evictList, LAMBDA e : ~KeyHasExpired(c, e.key, t))
    IN  [i \in 1..Len(s) |-> s[i].key]

Keys(c, t) ==
    LET s == LiveEntries(c, t) IN [i \in 1..Len(s) |-> s[i].key]

Values(c, t) ==
    LET s == LiveEntries(c, t) IN [i \in 1..Len(s) |-> s[i].value]

LenOf(c, t) == Len(Keys(c, t))

ItemCount(c, t) == Len(Keys(c, t))

RECURSIVE removeOldestTimes(_, _, _)
removeOldestTimes(c, n, t) ==
    IF n = 0 THEN c ELSE removeOldestTimes(removeOldest(c, t), n - 1, t)

Resize(c, size, t) ==
    LET d == LenOf(c, t) - size
        diff == IF d < 0 THEN 0 ELSE d
    IN  [c |-> [removeOldestTimes(c, diff, t) EXCEPT !.size = size],
         evicted |-> diff]

\* The walk of RemoveExpired from the back: position i, then i-1, ...
RECURSIVE RemoveExpiredFrom(_, _, _, _)
RemoveExpiredFrom(c, todo, n, t) ==
    IF todo = <<>>
    THEN [c |-> c, evicted |-> n]
    ELSE LET k == Head(todo)
         IN  IF KeyHasExpired(c, k, t)
             THEN RemoveExpiredFrom(removeElement(c, k), Tail(todo), n + 1, t)
             ELSE RemoveExpiredFrom(c, Tail(todo), n, t)

\* A RemoveExpired that stops at the first expired entry.
RemoveExpiredOnce(c, t) ==
    LET fe == findExpired(c, t)
    IN  IF fe.ok
        THEN [c |-> removeElement(c, fe.key), evicted |-> 1]
        ELSE [c |-> c, evicted |-> 0]

RemoveExpired(c, t) ==
    LET r == Reverse(c.evictList)
    IN  RemoveExpiredFrom(c, [i \in 1..Len(r) |-> r[i].key], 0, t)

\* A ChangeExpiry that looks the key up in the items map instead of Peek.
ChangeExpiryUnchecked(c, key, expiry, t) ==
    IF key \in c.items
    THEN [c |-> [c EXCEPT !.itemExpiries = MapPut(@, key, expiry)], ok |-> TRUE]
    ELSE [c |-> c, ok |-> FALSE]

ChangeExpiry(c, key, expiry, t) ==
    LET p == Peek(c, key, t)
    IN  IF p.ok
        THEN [c |-> [p.c EXCEPT !.itemExpiries = MapPut(@, key, expiry)], ok |-> TRUE]
        ELSE [c |-> p.c, ok |-> FALSE]

\* Purge ranges over the items map in the order `order` (a sequence of its
\* keys; Go leaves the order of a map range unspecified).
RECURSIVE PurgeLoop(_, _)
PurgeLoop(c, order) ==
    IF order = <<>>
    THEN c
    ELSE LET k == Head(order)
         IN  PurgeLoop([c EXCEPT !.log = Append(@, [key |-> k,
                                                     value |-> ValueOf(c.evictList, k)]),
                                 !.items = @ \ {k},
                                 !.itemExpiries = MapDelete(@, k)],
                       Tail(order))

\* A Purge that leaves the recorded expiries behind.
PurgeKeepingExpiries(c, order) ==
    [PurgeLoop(c, order) EXCEPT !.evictList = newList,
                                !.itemExpiries = c.itemExpiries]

Purge(c, order) == [PurgeLoop(c, order) EXCEPT !.evictList = newList]

\* A MoveItem that looks the key up in the items map of src instead of Peek.
MoveItemUnchecked(key, d, s, t) ==
    IF key \in s.items
    THEN LET v == ValueOf(s.evictList, key)
             r == Remove(s, key, t)
             a == AddWithExp(d, key, v, ExpiryForKey(r.c, key), t)
         IN  [src |-> r.c, dest |-> a.c, value |-> v, moved |-> TRUE]
    ELSE [src |-> s, dest |-> d, value |-> ZeroVal, moved |-> FALSE]

\* MoveItem(key, dest, src): the two caches are distinct instances.
MoveItem(key, d, s, t) ==
    LET p == Peek(s, key, t)
    IN  IF p.ok /\ ~KeyHasExpired(p.c, key, t)
        THEN LET r == Remove(p.c, key, t)
                 a == AddWithExp(d, key, p.value, ExpiryForKey(r.c, key), t)
             IN  [src |-> r.c, dest |-> a.c, value |-> p.value, moved |-> TRUE]
        ELSE [src |-> p.c, dest |-> d, value |-> ZeroVal, moved |-> FALSE]

\* ------------------------------------------- part_002: the earlier engine
NewLRUWithEvictTTLV2(size, itemTTL, expiryBasedEvict) ==
    [size             |-> size,
     evictList        |-> newList,
     items            |-> {},
     itemTTL          |-> itemTTL,
     itemExpiries     |-> EmptyMap,
     expiryBasedEvict |-> expiryBasedEvict,
     log              |-> <<>>]

keyHasExpiredV2(c, key, t) ==
    key \in DOMAIN c.itemExpiries /\ c.itemExpiries[key] < t

removeElementV2(c, k) ==
    LET v == ValueOf(c.evictList, k)
    IN  [c EXCEPT !.evictList = remove(@, k),
                  !.items = @ \ {k},
                  !.itemExpiries = MapDelete(@, k),
                  !.log = Append(@, [key |-> k, value |-> v])]

findExpiredV2(c, t) ==
    LET l == c.evictList
        hits == {i \in 1..Len(l) : keyHasExpiredV2(c, l[i].key, t)}
    IN  IF hits = {}
        THEN [ok |-> FALSE, key |-> ZeroKey]
        ELSE [ok |-> TRUE, key |-> l[CHOOSE i \in hits : \A j \in hits : j <= i].key]

removeOldestV2(c, t) ==
    LET fe == findExpiredV2(c, t)
    IN  IF c.expiryBasedEvict /\ fe.ok
        THEN removeElementV2(c, fe.key)
        ELSE IF HasBack(c.evictList)
             THEN removeElementV2(c, back(c.evictList).key)
             ELSE c

AddV2(c, key, value, t) ==
    IF key \in c.items
    THEN [c |-> [c EXCEPT !.evictList = SetValue(moveToFront(@, key), key, value),
                          !.log = Append(@, [key |-> key,
                                             value |-> ValueOf(c.evictList, key)])],
          evicted |-> FALSE]
    ELSE LET c1 == [c EXCEPT !.evictList = pushFront(@, key, value),
                             !.items = @ \cup {key},
                             !.itemExpiries =
                                 IF c.itemTTL > 0 THEN MapPut(@, key, t + c.itemTTL)
                                 ELSE @]
             evict == length(c1.evictList) > c1.size
         IN  [c |-> IF evict THEN removeOldestV2(c1, t) ELSE c1, evicted |-> evict]

GetV2(c, key, t) ==
    IF key \in c.items /\ ~keyHasExpiredV2(c, key, t)
    THEN [c |-> [c EXCEPT !.evictList = moveToFront(@, key)],
          value |-> ValueOf(c.evictList, key), ok |-> TRUE]
    ELSE [c |-> c, value |-> ZeroVal, ok |-> FALSE]

ContainsV2(c, key, t) ==
    [c |-> c, ok |-> key \in c.items /\ ~keyHasExpiredV2(c, key, t)]

PeekV2(c, key, t) ==
    IF key \in c.items /\ ~keyHasExpiredV2(c, key, t)
    THEN [c |-> c, value |-> ValueOf(c.evictList, key), ok |-> TRUE]
    ELSE [c |-> c, value |-> ZeroVal, ok |-> FALSE]

RemoveV2(c, key, t) ==
    IF key \in c.items
    THEN [c |-> removeElementV2(c, key), present |-> ~keyHasExpiredV2(c, key, t)]
    ELSE [c |-> c, present |-> FALSE]

\* The expiry test is made on the named result key, which still holds the
\* zero value of K when it is read.
RemoveOldestV2(c, t) ==
    IF HasBack(c.evictList)
    THEN LET ent == back(c.evictList)
         IN  IF ~keyHasExpiredV2(c, ZeroKey, t)
             THEN [c |-> removeElementV2(c, ent.key), key |-> ent.key,
                   value |-> ent.value, ok |-> TRUE]
             ELSE [c |-> removeElementV2(c, ent.key), key |-> ZeroKey,
                   value |-> ZeroVal, ok |-> FALSE]
    ELSE [c |-> c, key |-> ZeroKey, value |-> ZeroVal, ok |-> FALSE]

GetOldestV2(c, t) ==
    IF HasBack(c.evictList) /\ ~keyHasExpiredV2(c, ZeroKey, t)
    THEN [c |-> c, key |-> back(c.evictList).key,
          value |-> back(c.evictList).value, ok |-> TRUE]
    ELSE [c |-> c, key |-> ZeroKey, value |-> ZeroVal, ok |-> FALSE]

LiveEntriesV2(c, t) ==
    SelectSeq(Reverse(c.evictList), LAMBDA e : ~keyHasExpiredV2(c, e.key, t))

KeysV2(c, t) ==
    LET s == LiveEntriesV2(c, t) IN [i \in 1..Len(s) |-> s[i].key]

ValuesV2(c, t) ==
    LET s == LiveEntriesV2(c, t) IN [i \in 1..Len(s) |-> s[i].value]

LenV2(c, t) == Len(KeysV2(c, t))

ActualLenV2(c, t) == Len(KeysV2(c, t))

RECURSIVE removeOldestTimesV2(_, _, _)
removeOldestTimesV2(c, n, t) ==
    IF n = 0 THEN c ELSE removeOldestTimesV2(removeOldestV2(c, t), n - 1, t)

ResizeV2(c, size, t) ==
    LET d == LenV2(c, t) - size
        diff == IF d < 0 THEN 0 ELSE d
    IN  [c |-> [removeOldestTimesV2(c, diff, t) EXCEPT !.size = size],
         evicted |-> diff]

RECURSIVE RemoveExpiredFromV2(_, _, _, _)
RemoveExpiredFromV2(c, todo, n, t) ==
    IF todo = <<>>
    THEN [c |-> c, evicted |-> n]
    ELSE LET k == Head(todo)
         IN  IF keyHasExpiredV2(c, k, t)
             THEN RemoveExpiredFromV2(removeElementV2(c, k), Tail(todo), n + 1, t)
             ELSE RemoveExpiredFromV2(c, Tail(todo), n, t)

RemoveExpiredV2(c, t) ==
    LET r == Reverse(c.evictList)
    IN  RemoveExpiredFromV2(c, [i \in 1..Len(r) |-> r[i].key], 0, t)

PurgeV2(c, order) == [PurgeLoop(c, order) EXCEPT !.evictList = newList]

\* ------------------------------------------------------ the state machine
\* The state of key k in c at instant t, as a call made at t finds it.
Status(c, k, t) ==
    IF k \notin c.items THEN "absent"
    ELSE IF KeyHasExpired(c, k, t) THEN "expired"
    ELSE "live"

\* The residents of c at instant t, as a call on the whole cache finds them:
\* none, some of them expired, or all of them unexpired.
Residents(c, t) ==
    IF c.items = {} THEN "absent"
    ELSE IF \E k \in c.items : KeyHasExpired(c, k, t) THEN "expired"
    ELSE "live"

\* The callback log is empty between calls: what a call logged is kept in
\* last (log for cache, dlog for dest).
Fresh(c) == [c EXCEPT !.log = <<>>]

Call(op, key, val, exp, n, ok, rkey, rval, was, log) ==
    [op |-> op, key |-> key, val |-> val, exp |-> exp, n |-> n, ok |-> ok,
     rkey |-> rkey, rval |-> rval, was |-> was, log |-> log, dlog |-> <<>>]

\* The history of use after key k is used (touched = TRUE) or not, kept to
\* the keys resident in c.
Touch(u, k) == Append(SelectSeq(u, LAMBDA x : x # k), k)

Kept(u, c) == SelectSeq(u, LAMBDA x : x \in c.items)

Orders(S) == {o \in [1..Cardinality(S) -> S] : \A k \in S : \E i \in DOMAIN o : o[i] = k}

Init ==
    /\ engine \in {1, 2}
    /\ \E size \in Sizes, ttl \in TTLs, flag \in BOOLEAN :
          cache = IF engine = 1
                  THEN NewLRUWithEvictTTL(size, ttl)
                  ELSE NewLRUWithEvictTTLV2(size, ttl, flag)
    /\ dest = NewLRUWithEvictTTL(1, 0)
    /\ now = 1
    /\ used = <<>>
    /\ last = Call("New", ZeroKey, ZeroVal, ZeroTime, 0, FALSE, ZeroKey, ZeroVal, "absent", <<>>)

DoAdd ==
    \E k \in KeyDom, v \in Vals :
        LET r == IF engine = 1 THEN Add(cache, k, v, now)
                 ELSE AddV2(cache, k, v, now)
        IN  /\ cache' = Fresh(r.c)
            /\ used' = Kept(Touch(used, k), r.c)
            /\ last' = Call("Add", k, v, ZeroTime, 0, r.evicted, ZeroKey, ZeroVal,
                            Status(cache, k, now), r.c.log)
            /\ UNCHANGED <<dest, now, engine>>

DoAddWithExp ==
    /\ engine = 1
    /\ \E k \in KeyDom, v \in Vals, e \in Expiries :
        LET r == AddWithExp(cache, k, v, e, now)
        IN  /\ cache' = Fresh(r.c)
            /\ used' = Kept(Touch(used, k), r.c)
            /\ last' = Call("AddWithExp", k, v, e, 0, r.evicted, ZeroKey, ZeroVal,
                            Status(cache, k, now), r.c.log)
            /\ UNCHANGED <<dest, engine>>
    /\ now' = now

\* In part_001 the clock may advance between the two tests of Get.
DoGet ==
    \E k \in KeyDom, t2 \in {now, now + 1} :
        /\ t2 <= MaxTime
        /\ engine = 2 => t2 = now
        /\ LET r == IF engine = 1 THEN Get(cache, k, now, t2)
                    ELSE GetV2(cache, k, now)
           IN  /\ cache' = Fresh(r.c)
               /\ used' = Kept(IF r.ok THEN Touch(used, k) ELSE used, r.c)
               /\ last' = Call("Get", k, ZeroVal, ZeroTime, 0, r.ok, ZeroKey, r.value,
                               Status(cache, k, now), r.c.log)
        /\ now' = t2
        /\ UNCHANGED <<dest, engine>>

DoContains ==
    \E k \in KeyDom :
        LET r == IF engine = 1 THEN Contains(cache, k, now)
                 ELSE ContainsV2(cache, k, now)
        IN  /\ cache' = Fresh(r.c)
            /\ used' = Kept(used, r.c)
            /\ last' = Call("Contains", k, ZeroVal, ZeroTime, 0, r.ok, ZeroKey, ZeroVal,
                            Status(cache, k, now), r.c.log)
            /\ UNCHANGED <<dest, now, engine>>

DoPeek ==
    \E k \in KeyDom :
        LET r == IF engine = 1 THEN Peek(cache, k, now)
                 ELSE PeekV2(cache, k, now)
        IN  /\ cache' = Fresh(r.c)
            /\ used' = Kept(used, r.c)
            /\ last' = Call("Peek", k, ZeroVal, ZeroTime, 0, r.ok, ZeroKey, r.value,
                            Status(cache, k, now), r.c.log)
            /\ UNCHANGED <<dest, now, engine>>

DoRemove ==
    \E k \in KeyDom :
        LET r == IF engine = 1 THEN Remove(cache, k, now)
                 ELSE RemoveV2(cache, k, now)
        IN  /\ cache' = Fresh(r.c)
            /\ used' = Kept(used, r.c)
            /\ last' = Call("Remove", k, ZeroVal, ZeroTime, 0, r.present, ZeroKey, ZeroVal,
                            Status(cache, k, now), r.c.log)
            /\ UNCHANGED <<dest, now, engine>>

DoRemoveOldest ==
    LET r == IF engine = 1 THEN RemoveOldest(cache, now)
             ELSE RemoveOldestV2(cache, now)
    IN  /\ cache' = Fresh(r.c)
        /\ used' = Kept(used, r.c)
        /\ last' = Call("RemoveOldest", ZeroKey, ZeroVal, ZeroTime, 0, r.ok, r.key, r.value,
                        "absent", r.c.log)
        /\ UNCHANGED <<dest, now, engine>>

DoGetOldest ==
    LET r == IF engine = 1 THEN GetOldest(cache, now)
             ELSE GetOldestV2(cache, now)
    IN  /\ cache' = Fresh(r.c)
        /\ used' = Kept(used, r.c)
        /\ last' = Call("GetOldest", ZeroKey, ZeroVal, ZeroTime, 0, r.ok, r.key, r.value,
                        "absent", r.c.log)
        /\ UNCHANGED <<dest, now, engine>>

\* The capacity is a positive integer: Resize is called with one.
DoResize ==
    \E size \in Sizes :
        LET r == IF engine = 1 THEN Resize(cache, size, now)
                 ELSE ResizeV2(cache, size, now)
        IN  /\ cache' = Fresh(r.c)
            /\ used' = Kept(used, r.c)
            /\ last' = Call("Resize", ZeroKey, ZeroVal, ZeroTime, r.evicted, FALSE,
                            ZeroKey, ZeroVal, "absent", r.c.log)
            /\ UNCHANGED <<dest, now, engine>>

DoRemoveExpired ==
    LET r == IF engine = 1 THEN RemoveExpired(cache, now)
             ELSE RemoveExpiredV2(cache, now)
    IN  /\ cache' = Fresh(r.c)
        /\ used' = Kept(used, r.c)
        /\ last' = Call("RemoveExpired", ZeroKey, ZeroVal, ZeroTime, r.evicted, FALSE,
                        ZeroKey, ZeroVal, "absent", r.c.log)
        /\ UNCHANGED <<dest, now, engine>>

DoChangeExpiry ==
    /\ engine = 1
    /\ \E k \in KeyDom, e \in Expiries :
        LET r == ChangeExpiry(cache, k, e, now)
        IN  /\ cache' = Fresh(r.c)
            /\ used' = Kept(used, r.c)
            /\ last' = Call("ChangeExpiry", k, ZeroVal, e, 0, r.ok, ZeroKey, ZeroVal,
                            Status(cache, k, now), r.c.log)
            /\ UNCHANGED <<dest, engine>>
    /\ now' = now

DoPurge ==
    \E order \in Orders(cache.items) :
        LET c == IF engine = 1 THEN Purge(cache, order) ELSE PurgeV2(cache, order)
        IN
        /\ cache' = Fresh(c)
        /\ used' = <<>>
        /\ last' = Call("Purge", ZeroKey, ZeroVal, ZeroTime, 0, FALSE, ZeroKey, ZeroVal,
                        Residents(cache, now), c.log)
        /\ UNCHANGED <<dest, now, engine>>

\* time.Now() moves on between calls.
Tick ==
    /\ now < MaxTime
    /\ now' = now + 1
    /\ last' = Call("Tick", ZeroKey, ZeroVal, ZeroTime, 0, FALSE, ZeroKey, ZeroVal, "absent", <<>>)
    /\ UNCHANGED <<cache, dest, engine, used>>

Next ==
    \/ DoAdd
    \/ DoAddWithExp
    \/ DoGet
    \/ DoContains
    \/ DoPeek
    \/ DoRemove
    \/ DoRemoveOldest
    \/ DoGetOldest
    \/ DoResize
    \/ DoRemoveExpired
    \/ DoChangeExpiry
    \/ DoPurge
    \/ Tick

Spec == Init /\ [][Next]_vars

\* --------------------------------------------- adding only (and the clock)
NextAdd ==
    \/ DoAdd
    \/ DoAddWithExp
    \/ Tick

SpecAdd == Init /\ [][NextAdd]_vars

\* ------------------------------------------- filling, ageing and resizing
\* The cache is built one entry larger than the sizes Resize is called
\* with, so that a Resize to a smaller capacity can find both an expired
\* entry and more unexpired entries than the new capacity.
InitResize ==
    /\ engine \in {1, 2}
    /\ \E ttl \in TTLs, flag \in BOOLEAN :
          cache = IF engine = 1
                  THEN NewLRUWithEvictTTL(MaxSize + 1, ttl)
                  ELSE NewLRUWithEvictTTLV2(MaxSize + 1, ttl, flag)
    /\ dest = NewLRUWithEvictTTL(1, 0)
    /\ now = 1
    /\ used = <<>>
    /\ last = Call("New", ZeroKey, ZeroVal, ZeroTime, 0, FALSE, ZeroKey, ZeroVal, "absent", <<>>)

NextResize ==
    \/ DoAdd
    \/ DoAddWithExp
    \/ DoResize
    \/ Tick

SpecResize == InitResize /\ [][NextResize]_vars

\* ------------------------------------------------- two caches and MoveItem
\* cache is the source and dest the destination, both instances of part_001.
InitMove ==
    /\ engine = 1
    /\ \E ttl \in TTLs : cache = NewLRUWithEvictTTL(1, ttl)
    /\ \E ttl \in TTLs : dest = NewLRUWithEvictTTL(1, ttl)
    /\ now = 1
    /\ used = <<>>
    /\ last = Call("New", ZeroKey, ZeroVal, ZeroTime, 0, FALSE, ZeroKey, ZeroVal, "absent", <<>>)

DoDestAdd ==
    \E k \in KeyDom, v \in Vals :
        LET r == Add(dest, k, v, now)
        IN  /\ dest' = Fresh(r.c)
            /\ last' = Call("DestAdd", k, v, ZeroTime, 0, r.evicted, ZeroKey, ZeroVal,
                            Status(dest, k, now), r.c.log)
            /\ UNCHANGED <<cache, now, engine, used>>

DoMoveItem ==
    \E k \in KeyDom :
        LET r == MoveItem(k, dest, cache, now)
        IN  /\ cache' = Fresh(r.src)
            /\ dest' = Fresh(r.dest)
            /\ used' = Kept(used, r.src)
            /\ last' = [Call("MoveItem", k, ZeroVal, ExpiryForKey(cache, k), 0, r.moved,
                             ZeroKey, r.value, Status(cache, k, now), r.src.log)
                        EXCEPT !.dlog = r.dest.log]
            /\ UNCHANGED <<now, engine>>

NextMove ==
    \/ DoAddWithExp
    \/ DoDestAdd
    \/ DoMoveItem
    \/ Tick

SpecMove == InitMove /\ [][NextMove]_vars

\* ------------------------------------------------ the listing operations
\* Keys, Values, Len and ItemCount (ActualLen in part_002) walk the list and
\* assign nothing to the cache; last.n is the length of what they return.
DoKeys ==
    LET ks == IF engine = 1 THEN Keys(cache, now) ELSE KeysV2(cache, now)
    IN  /\ last' = Call("Keys", ZeroKey, ZeroVal, ZeroTime, Len(ks), FALSE,
                        ZeroKey, ZeroVal, Residents(cache, now), <<>>)
        /\ UNCHANGED <<cache, dest, now, engine, used>>

DoValues ==
    LET vs == IF engine = 1 THEN Values(cache, now) ELSE ValuesV2(cache, now)
    IN  /\ last' = Call("Values", ZeroKey, ZeroVal, ZeroTime, Len(vs), FALSE,
                        ZeroKey, ZeroVal, Residents(cache, now), <<>>)
        /\ UNCHANGED <<cache, dest, now, engine, used>>

DoLen ==
    LET n == IF engine = 1 THEN LenOf(cache, now) ELSE LenV2(cache, now)
    IN  /\ last' = Call("Len", ZeroKey, ZeroVal, ZeroTime, n, FALSE,
                        ZeroKey, ZeroVal, Residents(cache, now), <<>>)
        /\ UNCHANGED <<cache, dest, now, engine, used>>

DoItemCount ==
    LET n == IF engine = 1 THEN ItemCount(cache, now) ELSE ActualLenV2(cache, now)
    IN  /\ last' = Call("ItemCount", ZeroKey, ZeroVal, ZeroTime, n, FALSE,
                        ZeroKey, ZeroVal, Residents(cache, now), <<>>)
        /\ UNCHANGED <<cache, dest, now, engine, used>>

NextKeys ==
    \/ DoAdd
    \/ DoAddWithExp
    \/ DoGet
    \/ DoContains
    \/ DoPeek
    \/ DoRemove
    \/ DoRemoveOldest
    \/ DoGetOldest
    \/ DoResize
    \/ DoRemoveExpired
    \/ DoChangeExpiry
    \/ DoPurge
    \/ DoKeys
    \/ DoValues
    \/ DoLen
    \/ DoItemCount
    \/ Tick

SpecKeys == Init /\ [][NextKeys]_vars

\* ============================================================== the claims
\* Len(), Keys() and Values() of cache as its engine computes them.
CacheLen(c, t) == IF engine = 1 THEN LenOf(c, t) ELSE LenV2(c, t)

CacheKeys(c, t) == IF engine = 1 THEN Keys(c, t) ELSE KeysV2(c, t)

CacheValues(c, t) == IF engine = 1 THEN Values(c, t) ELSE ValuesV2(c, t)

\* No recorded expiry of c has elapsed at t.
NoneExpired(c, t) == \A k \in DOMAIN c.itemExpiries : ~(c.itemExpiries[k] < t)

IsAdd(l) == l.op \in {"Add", "AddWithExp"}

\* C1: under Add and AddWithExp alone, with the clock advancing between the
\* calls, Len() never exceeds the capacity the cache was built with; and an
\* Add that overflows the cache while no expiry has elapsed (neither a
\* resident entry's nor the new entry's) leaves Len() equal to the capacity.
C1_AddKeepsLenWithinCapacity ==
    /\ [](CacheLen(cache, now) <= cache.size)
    /\ [][(/\ IsAdd(last')
           /\ last'.ok
           /\ NoneExpired(cache, now')
           /\ (last'.exp = ZeroTime \/ ~(last'.exp < now')))
          => CacheLen(cache', now') = cache'.size]_vars

\* An Add has overflowed a cache with a default TTL and Len() equals the
\* capacity.
C1_Witness ==
    /\ last.op = "Add"
    /\ last.ok
    /\ cache.itemTTL > 0
    /\ Len(last.log) = 1
    /\ CacheLen(cache, now) = cache.size

\* C2: in every state reachable by the public operations and the clock, the
\* number of resident entries, expired or not, is at most the capacity; in
\* particular right after Resize(n) it is at most n.
C2_ResidentWithinCapacity == length(cache.evictList) <= cache.size

\* C3: with the default TTL disabled and no expiry recorded, an Add of a new
\* key that overflows the cache evicts exactly one entry, the resident key
\* whose most recent Add or successful Get is the oldest, and Keys() is then
\* the remaining keys in the order of their last use, oldest first.
C3_EvictsLeastRecentlyUsed ==
    [][(/\ IsAdd(last')
        /\ last'.exp = ZeroTime
        /\ last'.ok
        /\ cache.itemTTL = 0
        /\ DOMAIN cache.itemExpiries = {})
       => LET u == Touch(used, last'.key)
          IN  /\ Len(last'.log) = 1
              /\ last'.log[1].key = Head(u)
              /\ CacheKeys(cache', now') = Tail(u)]_vars

\* The example of the specification on the keys 0, 1, 2: capacity 2, the
\* Add of key 2 has evicted key 1 and kept the older key 0.
C3_Witness ==
    /\ last.op = "Add"
    /\ last.ok
    /\ last.key = 2
    /\ cache.itemTTL = 0
    /\ DOMAIN cache.itemExpiries = {}
    /\ cache.size = 2
    /\ Len(last.log) = 1
    /\ last.log[1].key = 1
    /\ CacheKeys(cache, now) = <<0, 2>>

\* The instant recorded for k in c is strictly before t.
Expired(c, k, t) == k \in DOMAIN c.itemExpiries /\ c.itemExpiries[k] < t

\* Get, Contains and Peek of key k all answer found = false in state c at t.
NotFound(c, k, t) ==
    IF engine = 1
    THEN /\ \A t2 \in {t, t + 1} : ~Get(c, k, t, t2).ok
         /\ ~Contains(c, k, t).ok
         /\ ~Peek(c, k, t).ok
    ELSE /\ ~GetV2(c, k, t).ok
         /\ ~ContainsV2(c, k, t).ok
         /\ ~PeekV2(c, k, t).ok

\* Keys() does not hold k, and Values() holds the values of the keys of
\* Keys(), position by position.
NotListed(c, k, t) ==
    LET ks == CacheKeys(c, t)
        vs == CacheValues(c, t)
    IN  /\ \A i \in 1..Len(ks) : ks[i] # k
        /\ Len(vs) = Len(ks)
        /\ \A i \in 1..Len(ks) : vs[i] = ValueOf(c.evictList, ks[i])

C6_MoveItemPreservesExpiry ==
    [][(/\ last'.op = "MoveItem"
        /\ last'.key \in cache.items
        /\ last'.key \in DOMAIN cache.itemExpiries
        /\ ~Expired(cache, last'.key, now))
       => /\ last'.ok
          /\ last'.rval = ValueOf(cache.evictList, last'.key)
          /\ last'.key \notin cache'.items
          /\ last'.key \in dest'.items
          /\ ValueOf(dest'.evictList, last'.key) = ValueOf(cache.evictList, last'.key)
          /\ ExpiryForKey(dest', last'.key) = ExpiryForKey(cache, last'.key)]_vars

C8_GetRemovesExpired ==
    (last.op = "Get" /\ last.was = "expired") =>
        /\ ~last.ok
        /\ last.key \notin cache.items
        /\ \A i \in 1..Len(cache.evictList) : cache.evictList[i].key # last.key
        /\ last.key \notin DOMAIN cache.itemExpiries

\* C9: Resize(n) returns max(0, Len() - n) for the Len() before the call,
\* and that number is the number of entries the call removes, one callback
\* for each.
C9_ResizeReturnsEvictedCount ==
    [][last'.op = "Resize"
       => LET d == CacheLen(cache, now) - cache'.size
          IN  /\ last'.n = IF d < 0 THEN 0 ELSE d
              /\ Len(last'.log) = last'.n
              /\ length(cache.evictList) - length(cache'.evictList) = last'.n]_vars

\* C10: Add or AddWithExp on a resident key calls onEvict once, with the key
\* and the old value, stores the new value, moves the entry to the front,
\* returns false and removes nothing: the other entries keep their places.
C10_AddOnResidentKeyOverwrites ==
    [][(IsAdd(last') /\ last'.key \in cache.items)
       => LET k == last'.key
          IN  /\ last'.log = <<[key |-> k, value |-> ValueOf(cache.evictList, k)]>>
              /\ ~last'.ok
              /\ cache'.evictList[1] = [key |-> k, value |-> last'.val]
              /\ cache'.items = cache.items
              /\ length(cache'.evictList) = length(cache.evictList)
              /\ remove(cache'.evictList, k) = remove(cache.evictList, k)]_vars

\* Add has replaced the value of a resident key by a different one.
C10_Witness ==
    /\ IsAdd(last)
    /\ last.was = "live"
    /\ Len(last.log) = 1
    /\ last.log[1].value # last.val

\* C11: Add or AddWithExp of a key that is not resident evicts at most one
\* entry: when the list is longer than the capacity after the insertion the
\* call removes exactly one entry, with one callback, and returns true;
\* otherwise it removes nothing and returns false.
C11_AddEvictsAtMostOne ==
    [][(IsAdd(last') /\ last'.key \notin cache.items)
       => LET over == length(cache.evictList) + 1 > cache.size
              gone == IF over THEN 1 ELSE 0
          IN  /\ last'.ok = over
              /\ Len(last'.log) = gone
              /\ length(cache'.evictList) = length(cache.evictList) + 1 - gone]_vars

\* C12: GetOldest is read-only: it leaves the recency list, the items map
\* and the recorded expiries as they were and calls onEvict for nothing; on
\* an empty cache it returns found = false.
C12_GetOldestIsReadOnly ==
    [][last'.op = "GetOldest"
       => /\ cache'.evictList = cache.evictList
          /\ cache'.items = cache.items
          /\ cache'.itemExpiries = cache.itemExpiries
          /\ last'.log = <<>>
          /\ (length(cache.evictList) = 0 => ~last'.ok)]_vars

\* C13: RemoveOldest returns found = false only when no entry is resident
\* before the call; when an entry is resident, expired or not, it returns
\* found = true with the key and the value of the entry it removed.
C13_RemoveOldestFindsResident ==
    [][last'.op = "RemoveOldest"
       => IF length(cache.evictList) = 0
          THEN ~last'.ok
          ELSE /\ last'.ok
               /\ last'.log # <<>>
               /\ last'.log[Len(last'.log)] = [key |-> last'.rkey, value |-> last'.rval]
               /\ last'.rkey \in cache.items
               /\ last'.rkey \notin cache'.items]_vars

\* C14: Remove on a resident key always removes it (its node, its entry in
\* the items map and its recorded expiry) and calls onEvict exactly once,
\* with the key and its value; it returns true exactly when the entry had
\* not expired at the call.  Remove on an absent key returns false, changes
\* nothing and calls onEvict for nothing.
C14_RemoveAlwaysRemoves ==
    [][last'.op = "Remove"
       => LET k == last'.key
          IN  IF k \in cache.items
              THEN /\ last'.log = <<[key |-> k, value |-> ValueOf(cache.evictList, k)]>>
                   /\ cache'.items = cache.items \ {k}
                   /\ \A i \in 1..Len(cache'.evictList) : cache'.evictList[i].key # k
                   /\ length(cache'.evictList) = length(cache.evictList) - 1
                   /\ k \notin DOMAIN cache'.itemExpiries
                   /\ last'.ok = ~Expired(cache, k, now)
              ELSE /\ ~last'.ok
                   /\ cache' = cache
                   /\ last'.log = <<>>]_vars

\* Remove was called on an expired resident key: it returned false, called
\* onEvict once and left another entry resident.
C14_Witness ==
    /\ last.op = "Remove"
    /\ last.was = "expired"
    /\ ~last.ok
    /\ Len(last.log) = 1
    /\ last.key \notin cache.items
    /\ cache.items # {}

C16_RemoveExpiredRemovesExactlyExpired ==
    [][last'.op = "RemoveExpired"
       => LET gone == {k \in cache.items : Expired(cache, k, now)}
          IN  /\ last'.n = Cardinality(gone)
              /\ Len(last'.log) = Cardinality(gone)
              /\ \A k \in gone : \E j \in 1..Len(last'.log) : last'.log[j].key = k
              /\ cache'.items = cache.items \ gone
              /\ cache'.evictList = SelectSeq(cache.evictList, LAMBDA e : e.key \notin gone)
              /\ \A k \in cache'.items :
                    /\ ~Expired(cache', k, now')
                    /\ ExpiryForKey(cache', k) = ExpiryForKey(cache, k)]_vars

\* RemoveExpired has removed one expired entry and kept an unexpired one
\* that has a recorded expiry.
C16_Witness ==
    /\ last.op = "RemoveExpired"
    /\ last.n = 1
    /\ Len(last.log) = 1
    /\ \E k \in cache.items : k \in DOMAIN cache.itemExpiries

\* What onEvict is called with by an Add of the key k to c at instant t.
EvictedByAdd(c, k, t) ==
    IF engine = 1 THEN Add(c, k, "a", t).c.log ELSE AddV2(c, k, "a", t).c.log

\* C17: Contains and Peek never change the recency order: the entries that
\* remain after the call are in the order they were in before it, and the
\* only entry the call may remove is the queried key when it has expired.
\* So a Contains or Peek that finds the entry at the back of a full cache
\* does not protect it: while no expiry has elapsed, the next Add of a new
\* key evicts that entry.
C17_ContainsPeekKeepOrder ==
    /\ [][last'.op \in {"Contains", "Peek"}
          => \/ cache'.evictList = cache.evictList
             \/ /\ last'.was = "expired"
                /\ cache'.evictList =
                       SelectSeq(cache.evictList, LAMBDA e : e.key # last'.key)]_vars
    /\ []((/\ last.op \in {"Contains", "Peek"}
           /\ last.ok
           /\ HasBack(cache.evictList)
           /\ back(cache.evictList).key = last.key
           /\ length(cache.evictList) = cache.size
           /\ NoneExpired(cache, now))
          => \A k \in KeyDom \ cache.items :
                EvictedByAdd(cache, k, now) = <<back(cache.evictList)>>)

\* Peek has found the entry at the back of a full cache of two entries, and
\* it is still at the back.
C17_Witness ==
    /\ last.op = "Peek"
    /\ last.ok
    /\ cache.size = 2
    /\ length(cache.evictList) = 2
    /\ back(cache.evictList).key = last.key
    /\ NoneExpired(cache, now)

\* ItemCount() of cache as its engine computes it (ActualLen in part_002).
CacheItemCount(c, t) == IF engine = 1 THEN ItemCount(c, t) ELSE ActualLenV2(c, t)

====
